---- MODULE Spec2Model ----
(***************************************************************************)
(* Model of the schema migration engine of supabase_poc: the SQL           *)
(* statement splitter, the safety validator and the transactional          *)
(* executor (MigrationRunner.ApplyMigration).                              *)
(*                                                                         *)
(* A script is a sequence of runes; a rune is a one-character string.      *)
(* Indices into a script are Go's (0-based): At(runes, k) is runes[k].     *)
(***************************************************************************)
EXTENDS Integers, Sequences, FiniteSets, TLC

VARIABLES
    sql,        \* the script handed to the function under analysis
    pc,         \* position of the running function
    scan,       \* locals of splitSQLStatements (one record)
    verdict,    \* what validateSQL returned
    result,     \* ApplyMigration: the MigrationResult
    err,        \* ApplyMigration: the error value returned
    tx,         \* ApplyMigration: the transaction of mr.db.Begin()
    statements, \* ApplyMigration: the statements of the script
    idx,        \* ApplyMigration: the loop index i
    tablesCreated,      \* ApplyMigration: local of that name
    totalRowsInserted,  \* ApplyMigration: local of that name
    executed,   \* the database: the statements given to tx.Exec, in order
    reported,   \* the database: the rows it reported for each statement run
    connStr,    \* NewMigrationRunner: the connection string of the project
    db,         \* the handle of sql.Open: "none", "open" or "closed"
    pingIdx,    \* NewMigrationRunner: the loop index i
    pingErr,    \* NewMigrationRunner: local of that name
    runner,     \* what NewMigrationRunner returned: the pointer and its db field
    nmErr,      \* the error NewMigrationRunner returned
    pingLog,    \* the database: what it answered to each Ping, in order
    sleeps,     \* the number of time.Sleep calls made
    dbCloses,   \* the number of db.Close() calls made on the handle
    closeCalls, \* the outcome of each call of MigrationRunner.Close, in order
    extractedName,  \* what extractTableName returned
    storage,    \* the projects table: the status stored under each id
    requests,   \* the locals of each ApplySchema request
    handles,    \* every *sql.DB that sql.Open has returned, in order
    txs,        \* every *sql.Tx that Begin has returned, in order
    creates,    \* each CreateProject request and its background task
    deletes,    \* the locals of each DeleteProject request
    deleted,    \* the ids storage.DeleteProject has removed a row for
    wait        \* the locals of WaitForProject, the clock and what it saw

migVars ==
    <<result, err, tx, statements, idx, tablesCreated, totalRowsInserted,
      executed, reported>>

connVars ==
    <<connStr, db, pingIdx, pingErr, runner, nmErr, pingLog, sleeps, dbCloses,
      closeCalls>>

schemaVars == <<requests, handles, txs>>

projectVars == <<creates, deletes, deleted>>

apiVars == <<extractedName, storage, schemaVars, projectVars, wait>>

vars == <<sql, pc, scan, verdict, migVars, connVars, apiVars>>

----------------------------------------------------------------------------
(* Runes and the strings package                                           *)

LowerCase ==
    <<"a", "b", "c", "d", "e", "f", "g", "h", "i", "j", "k", "l", "m",
      "n", "o", "p", "q", "r", "s", "t", "u", "v", "w", "x", "y", "z">>

UpperCase ==
    <<"A", "B", "C", "D", "E", "F", "G", "H", "I", "J", "K", "L", "M",
      "N", "O", "P", "Q", "R", "S", "T", "U", "V", "W", "X", "Y", "Z">>

Digits == {"0", "1", "2", "3", "4", "5", "6", "7", "8", "9"}

Range(f) == {f[k] : k \in DOMAIN f}

\* the white space strings.TrimSpace removes (ASCII part of unicode.IsSpace)
WhiteSpace == {" ", "\t", "\n", "\r", "\f"}

IsSpace(c) == c \in WhiteSpace

At(runes, k) == runes[k + 1]

\* runes[from:to] of Go: positions from .. to-1
Slice(runes, from, to) == SubSeq(runes, from + 1, to)

\* strings.ToUpper on one rune
ToUpperRune(c) ==
    IF c \in Range(LowerCase)
    THEN UpperCase[CHOOSE k \in DOMAIN LowerCase : LowerCase[k] = c]
    ELSE c

ToUpper(s) == [k \in DOMAIN s |-> ToUpperRune(s[k])]

\* strings.TrimSpace
TrimSpace(s) ==
    LET keep == {k \in DOMAIN s : ~IsSpace(s[k])}
    IN  IF keep = {} THEN <<>>
        ELSE LET lo == CHOOSE k \in keep : \A m \in keep : k <= m
                 hi == CHOOSE k \in keep : \A m \in keep : m <= k
             IN  SubSeq(s, lo, hi)

\* strings.HasPrefix
HasPrefix(s, prefix) ==
    /\ Len(prefix) <= Len(s)
    /\ SubSeq(s, 1, Len(prefix)) = prefix

\* strings.Contains
Contains(s, substr) ==
    \E k \in 0..(Len(s) - Len(substr)) : Slice(s, k, k + Len(substr)) = substr

----------------------------------------------------------------------------
(* splitSQLStatements                                                      *)

\* the runes that may stand between the two '$' of a dollar-quote tag
IsTagRune(c) ==
    \/ c = "_"
    \/ c \in Range(LowerCase)
    \/ c \in Range(UpperCase)
    \/ c \in Digits

\* the locals at the start of the loop
ScanInit ==
    [i |-> 0, buf |-> <<>>, statements |-> <<>>,
     inString |-> FALSE, inComment |-> FALSE,
     inDollarQuote |-> FALSE, dollarQuoteTag |-> <<>>,
     splitAt |-> {}]   \* history: the indices whose semicolon ended a statement

\* the value of tagEnd after the inner loop started at i
TagEnd(runes, i) ==
    LET n == Len(runes)
        stop == {k \in (i + 1)..n : k = n \/ ~IsTagRune(At(runes, k))}
    IN  CHOOSE k \in stop : \A m \in stop : k <= m

\* DollarQuote with the tag comparison left out: any tag closes the region
DollarQuoteAnyTagCloses(runes, s) ==
    LET char == At(runes, s.i)
        tagEnd == TagEnd(runes, s.i)
    IN  IF char = "$" /\ ~s.inString /\ ~s.inComment
           /\ tagEnd < Len(runes) /\ At(runes, tagEnd) = "$"
        THEN IF ~s.inDollarQuote
             THEN [s EXCEPT !.inDollarQuote = TRUE,
                            !.dollarQuoteTag = Slice(runes, s.i, tagEnd + 1)]
             ELSE [s EXCEPT !.inDollarQuote = FALSE, !.dollarQuoteTag = <<>>]
        ELSE s

\* DollarQuote that keeps the remembered tag when the region closes
DollarQuoteTagKept(runes, s) ==
    LET char == At(runes, s.i)
        tagEnd == TagEnd(runes, s.i)
    IN  IF char = "$" /\ ~s.inString /\ ~s.inComment
           /\ tagEnd < Len(runes) /\ At(runes, tagEnd) = "$"
        THEN LET tag == Slice(runes, s.i, tagEnd + 1)
             IN  IF ~s.inDollarQuote
                 THEN [s EXCEPT !.inDollarQuote = TRUE, !.dollarQuoteTag = tag]
                 ELSE IF tag = s.dollarQuoteTag
                      THEN [s EXCEPT !.inDollarQuote = FALSE]
                      ELSE s
        ELSE s

\* the dollar-quote block of one iteration
DollarQuote(runes, s) ==
    LET char == At(runes, s.i)
        tagEnd == TagEnd(runes, s.i)
    IN  IF char = "$" /\ ~s.inString /\ ~s.inComment
           /\ tagEnd < Len(runes) /\ At(runes, tagEnd) = "$"
        THEN LET tag == Slice(runes, s.i, tagEnd + 1)
             IN  IF ~s.inDollarQuote
                 THEN [s EXCEPT !.inDollarQuote = TRUE, !.dollarQuoteTag = tag]
                 ELSE IF tag = s.dollarQuoteTag
                      THEN [s EXCEPT !.inDollarQuote = FALSE,
                                     !.dollarQuoteTag = <<>>]
                      ELSE s
        ELSE s

\* LineComment without the test "!inString && !inDollarQuote"
LineCommentAnywhere(runes, s) ==
    LET char == At(runes, s.i)
    IN  IF s.inComment
        THEN IF char = "\n" THEN [s EXCEPT !.inComment = FALSE] ELSE s
        ELSE IF char = "-" /\ s.i + 1 < Len(runes) /\ At(runes, s.i + 1) = "-"
             THEN [s EXCEPT !.inComment = TRUE]
             ELSE s

\* the single-line comment block of one iteration
LineComment(runes, s) ==
    LET char == At(runes, s.i)
    IN  IF ~s.inString /\ ~s.inDollarQuote
        THEN IF s.inComment
             THEN IF char = "\n" THEN [s EXCEPT !.inComment = FALSE] ELSE s
             ELSE IF char = "-" /\ s.i + 1 < Len(runes)
                     /\ At(runes, s.i + 1) = "-"
                  THEN [s EXCEPT !.inComment = TRUE]
                  ELSE s
        ELSE s

\* buf.WriteRune(char) at the end of the iteration, and the loop's i++
WriteRune(runes, s) ==
    [s EXCEPT !.buf = Append(s.buf, At(runes, s.i)), !.i = s.i + 1]

\* the statement-separator block: emit the trimmed buffer, reset, continue
EndStatement(runes, s) ==
    LET stmt == TrimSpace(s.buf)
    IN  [s EXCEPT !.statements = IF stmt # <<>> THEN Append(s.statements, stmt)
                                 ELSE s.statements,
                  !.buf = <<>>,
                  !.splitAt = s.splitAt \cup {s.i},
                  !.i = s.i + 1]

\* Semicolon with the inString test left out
SemicolonInString(runes, s) ==
    IF At(runes, s.i) = ";" /\ ~s.inComment /\ ~s.inDollarQuote
    THEN EndStatement(runes, s)
    ELSE WriteRune(runes, s)

\* the statement-separator test, and the write that follows when it fails
Semicolon(runes, s) ==
    IF At(runes, s.i) = ";" /\ ~s.inString /\ ~s.inComment /\ ~s.inDollarQuote
    THEN EndStatement(runes, s)
    ELSE WriteRune(runes, s)

\* EscapedQuote that copies only the first of the two quotes
EscapedQuoteOnce(runes, s) ==
    [s EXCEPT !.buf = Append(s.buf, At(runes, s.i)), !.i = s.i + 2]

\* the escaped quote '' inside a string: both runes are copied, i skips both
EscapedQuote(runes, s) ==
    [s EXCEPT !.buf = s.buf \o <<At(runes, s.i), At(runes, s.i + 1)>>,
              !.i = s.i + 2]

\* the single-quoted string block, and what follows it in the iteration
SingleQuote(runes, s) ==
    IF ~s.inComment /\ ~s.inDollarQuote /\ At(runes, s.i) = "'"
    THEN IF s.inString
         THEN IF s.i + 1 < Len(runes) /\ At(runes, s.i + 1) = "'"
              THEN EscapedQuote(runes, s)
              ELSE Semicolon(runes, [s EXCEPT !.inString = FALSE])
         ELSE Semicolon(runes, [s EXCEPT !.inString = TRUE])
    ELSE Semicolon(runes, s)

\* one iteration of the loop over the runes
ScanStep(runes, s) == SingleQuote(runes, LineComment(runes, DollarQuote(runes, s)))

\* Remaining without the trim of the buffer
RemainingUntrimmed(s) ==
    IF Len(s.buf) > 0 /\ TrimSpace(s.buf) # <<>>
    THEN [s EXCEPT !.statements = Append(s.statements, s.buf)]
    ELSE s

\* "Add remaining statement"
Remaining(s) ==
    LET stmt == TrimSpace(s.buf)
    IN  IF Len(s.buf) > 0 /\ stmt # <<>>
        THEN [s EXCEPT !.statements = Append(s.statements, stmt)]
        ELSE s

RECURSIVE ScanAll(_, _)
ScanAll(runes, s) ==
    IF s.i < Len(runes) THEN ScanAll(runes, ScanStep(runes, s)) ELSE s

splitSQLStatements(runes) == Remaining(ScanAll(runes, ScanInit)).statements

----------------------------------------------------------------------------
(* validateSQL                                                             *)

\* DROP DATABASE
DropDatabase ==
    <<"D", "R", "O", "P", " ", "D", "A", "T", "A", "B", "A", "S", "E">>

\* DROP SCHEMA
DropSchema ==
    <<"D", "R", "O", "P", " ", "S", "C", "H", "E", "M", "A">>

\* TRUNCATE DATABASE
TruncateDatabase ==
    <<"T", "R", "U", "N", "C", "A", "T", "E", " ", "D", "A", "T", "A", "B",
      "A", "S", "E">>

\* the slice "dangerous", in its order
dangerous == <<DropDatabase, DropSchema, TruncateDatabase>>

\* validateSQL that compares without upper-casing the script
validateSQLCaseSensitive(script) ==
    LET trimmed == TrimSpace(script)
        hits == {k \in DOMAIN dangerous : Contains(trimmed, dangerous[k])}
    IN  IF trimmed = <<>>
        THEN [failed |-> TRUE, msg |-> "SQL cannot be empty", danger |-> <<>>]
        ELSE IF hits # {}
        THEN [failed |-> TRUE, msg |-> "dangerous operation detected: ",
              danger |-> dangerous[CHOOSE k \in hits : \A m \in hits : k <= m]]
        ELSE [failed |-> FALSE, msg |-> "nil", danger |-> <<>>]

\* validateSQL without the test for the empty script
validateSQLNoEmptyTest(script) ==
    LET upperSQL == ToUpper(TrimSpace(script))
        hits == {k \in DOMAIN dangerous : Contains(upperSQL, dangerous[k])}
    IN  IF hits # {}
        THEN [failed |-> TRUE, msg |-> "dangerous operation detected: ",
              danger |-> dangerous[CHOOSE k \in hits : \A m \in hits : k <= m]]
        ELSE [failed |-> FALSE, msg |-> "nil", danger |-> <<>>]

\* the error validateSQL returns: msg "nil" for no error; the first phrase of
\* the slice found in the upper-cased script is the one reported
validateSQL(script) ==
    LET trimmed == TrimSpace(script)
        upperSQL == ToUpper(trimmed)
        hits == {k \in DOMAIN dangerous : Contains(upperSQL, dangerous[k])}
    IN  IF trimmed = <<>>
        THEN [failed |-> TRUE, msg |-> "SQL cannot be empty", danger |-> <<>>]
        ELSE IF hits # {}
        THEN [failed |-> TRUE, msg |-> "dangerous operation detected: ",
              danger |-> dangerous[CHOOSE k \in hits : \A m \in hits : k <= m]]
        ELSE [failed |-> FALSE, msg |-> "nil", danger |-> <<>>]

----------------------------------------------------------------------------
(* extractTableName                                                        *)

\* INSERT
KwInsert == <<"I", "N", "S", "E", "R", "T">>

\* CREATE TABLE
KwCreateTable == <<"C", "R", "E", "A", "T", "E", " ", "T", "A", "B", "L", "E">>

\* TABLE
KwTable == <<"T", "A", "B", "L", "E">>

\* IF
KwIf == <<"I", "F">>

\* strings.Fields: the maximal runs of runes that are not white space
RECURSIVE Fields(_)
Fields(s) ==
    IF s = <<>> THEN <<>>
    ELSE IF IsSpace(Head(s)) THEN Fields(Tail(s))
    ELSE LET stop == {k \in 1..Len(s) : k = Len(s) \/ IsSpace(s[k + 1])}
             last == CHOOSE k \in stop : \A m \in stop : k <= m
         IN  <<SubSeq(s, 1, last)>> \o Fields(SubSeq(s, last + 1, Len(s)))

\* strings.Index(s, "."), -1 when there is none
IndexDot(s) ==
    LET dots == {k \in 0..(Len(s) - 1) : At(s, k) = "."}
    IN  IF dots = {} THEN -1 ELSE CHOOSE k \in dots : \A m \in dots : k <= m

\* strings.TrimSuffix(s, "(")
TrimSuffixParen(s) ==
    IF s # <<>> /\ s[Len(s)] = "(" THEN SubSeq(s, 1, Len(s) - 1) ELSE s

\* strings.Trim(s, "\""): every leading and trailing double quote goes
TrimQuotes(s) ==
    LET keep == {k \in DOMAIN s : s[k] # "\""}
    IN  IF keep = {} THEN <<>>
        ELSE LET lo == CHOOSE k \in keep : \A m \in keep : k <= m
                 hi == CHOOSE k \in keep : \A m \in keep : m <= k
             IN  SubSeq(s, lo, hi)

\* what extractTableName makes of the token taken as the name
CleanTableName(tableName) ==
    LET dot == IndexDot(tableName)
        bare == IF dot > 0 THEN Slice(tableName, dot + 1, Len(tableName))
                ELSE tableName
    IN  TrimQuotes(TrimSuffixParen(bare))

\* the loop over parts, from index i on
RECURSIVE TableNameFrom(_, _)
TableNameFrom(parts, i) ==
    IF i >= Len(parts) THEN <<>>
    ELSE IF ToUpper(At(parts, i)) = KwTable /\ i + 1 < Len(parts)
    THEN IF ToUpper(At(parts, i + 1)) = KwIf
         THEN IF i + 4 < Len(parts)
              THEN CleanTableName(At(parts, i + 4))
              ELSE TableNameFrom(parts, i + 1)
         ELSE CleanTableName(At(parts, i + 1))
    ELSE TableNameFrom(parts, i + 1)

extractTableName(stmt) ==
    IF ~HasPrefix(ToUpper(TrimSpace(stmt)), KwCreateTable) THEN <<>>
    ELSE TableNameFrom(Fields(stmt), 0)

----------------------------------------------------------------------------
(* Scripts given to the splitter                                           *)

MaxTok == 4

\* the lexemes the scanner tells apart, and one plain rune
Tokens ==
    {<<"a">>, <<";">>, <<"'">>, <<"-">>, <<"$">>, <<"$", "$">>,
     <<"$", "a", "$">>, <<"$", "b", "$">>, <<" ">>, <<"\n">>}

RECURSIVE Flatten(_)
Flatten(ss) == IF ss = <<>> THEN <<>> ELSE Head(ss) \o Flatten(Tail(ss))

TokenScripts(n) == {Flatten(ts) : ts \in UNION {[1..m -> Tokens] : m \in 0..n}}

\* INSERT INTO t VALUES ('a;b''c')
ExInsert ==
    <<"I", "N", "S", "E", "R", "T", " ", "I", "N", "T", "O", " ", "t", " ",
      "V", "A", "L", "U", "E", "S", " ", "(", "'", "a", ";", "b", "'", "'",
      "c", "'", ")">>

\* CREATE FUNCTION f() RETURNS void AS $$ BEGIN RAISE NOTICE 'x;y'; END; $$ LANGUAGE plpgsql;
ExFunction ==
    <<"C", "R", "E", "A", "T", "E", " ", "F", "U", "N", "C", "T", "I", "O",
      "N", " ", "f", "(", ")", " ", "R", "E", "T", "U", "R", "N", "S", " ",
      "v", "o", "i", "d", " ", "A", "S", " ", "$", "$", " ", "B", "E", "G",
      "I", "N", " ", "R", "A", "I", "S", "E", " ", "N", "O", "T", "I", "C",
      "E", " ", "'", "x", ";", "y", "'", ";", " ", "E", "N", "D", ";", " ",
      "$", "$", " ", "L", "A", "N", "G", "U", "A", "G", "E", " ", "p", "l",
      "p", "g", "s", "q", "l", ";">>

\* $a$x$a$$b$y$b$;
ExBackToBack ==
    <<"$", "a", "$", "x", "$", "a", "$", "$", "b", "$", "y", "$", "b", "$",
      ";">>

\* $$$$;
ExEmptyBody == <<"$", "$", "$", "$", ";">>

\* " a ;\n b ": two statements in white space, the second without semicolon
ExTwoStatements == <<" ", "a", " ", ";", "\n", " ", "b", " ">>

\* x = 'it'';' ; -- c;\n y
ExQuoted ==
    <<"x", " ", "=", " ", "'", "i", "t", "'", "'", ";", "'", " ", ";", " ",
      "-", "-", " ", "c", ";", "\n", " ", "y">>

\* x -- it's $a$\n; y : a comment that holds a quote and a dollar-quote tag
ExComment ==
    <<"x", " ", "-", "-", " ", "i", "t", "'", "s", " ", "$", "a", "$", "\n",
      ";", " ", "y">>

Examples ==
    {ExInsert, ExFunction, ExBackToBack, ExEmptyBody, ExTwoStatements, ExQuoted,
     ExComment}

MaxBody == 2

DollarTags == {<<"$", "$">>, <<"$", "a", "$">>, <<"$", "b", "$">>}

BodyRunes == {";", "'", "a", "$"}

\* the texts a region opened with tag can hold: the first place where the
\* tag stands in body \o tag is the closing tag itself
IsBodyOf(body, tag) ==
    \A k \in 0..(Len(body) - 1) :
        Slice(body \o tag, k, k + Len(tag)) # tag

DollarBodies(tag) ==
    {b \in UNION {[1..m -> BodyRunes] : m \in 0..MaxBody} : IsBodyOf(b, tag)}

\* one statement with a dollar-quoted body: f <tag><body><tag> g;
DollarQuotedStatement(tag, body) ==
    <<"f", " ">> \o tag \o body \o tag \o <<" ", "g", ";">>

DollarQuotedStatements ==
    UNION {{DollarQuotedStatement(t, b) : b \in DollarBodies(t)} :
              t \in DollarTags}

\* one statement with two dollar-quoted blocks, the second right after the
\* first: <tag1><body1><tag1><tag2><body2><tag2>;
BackToBackStatement(t1, b1, t2, b2) ==
    t1 \o b1 \o t1 \o t2 \o b2 \o t2 \o <<";">>

PlainBodies == {<<>>, <<"x">>, <<"y", ";">>}

BackToBackStatements ==
    {BackToBackStatement(t1, b1, t2, b2) :
        t1 \in DollarTags, t2 \in DollarTags,
        b1 \in PlainBodies, b2 \in PlainBodies}

SplitInputs ==
    TokenScripts(MaxTok) \cup Examples \cup DollarQuotedStatements
        \cup BackToBackStatements

----------------------------------------------------------------------------
(* The splitter, one loop iteration per step                               *)

\* ApplyMigration has not started
MigIdle ==
    /\ result = [Success |-> FALSE, TablesCreated |-> <<>>, RowsInserted |-> 0,
                 ExecutionTime |-> "zero", Error |-> <<>>, StatementsRun |-> 0]
    /\ err = <<>>
    /\ tx = [state |-> "none", begins |-> 0, commits |-> 0, rollbacks |-> 0,
             ends |-> 0]
    /\ statements = <<>>
    /\ idx = 0
    /\ tablesCreated = <<>>
    /\ totalRowsInserted = 0
    /\ executed = <<>>
    /\ reported = <<>>

MaxReqs == 2

Reqs == 1..MaxReqs

\* the ids requests name: a project that is ready, one that is still coming
\* up, and one that is not in the table
Projects == {"p1", "p2", "p3"}

StoredProjects == [p1 |-> "ACTIVE_HEALTHY", p2 |-> "COMING_UP", p3 |-> "absent"]

\* a request that has not started: no runner, no transaction, no answer
NoRequest ==
    [pc |-> "as_bind", project |-> "none", runner |-> 0, tx |-> 0,
     applyCalls |-> 0, code |-> 0]

MaxCreates == 2

MaxDeletes == 1

\* a CreateProject request that has not started; its project gets the id id
NoCreate(id) == [pc |-> "cp_create", id |-> id, saves |-> 0]

\* a DeleteProject request that has not started
NoDelete == [pc |-> "dp_get", id |-> 0, code |-> 0]

\* "checkInterval := 5 * time.Second"
FirstInterval == 5

\* WaitForProject at its first line, called at time 0 with the timeout given
WaitStart(timeout) ==
    [pc |-> "wf_loop", now |-> 0, deadline |-> timeout,
     checkInterval |-> FirstInterval, seen |-> "nothing", slept |-> 0,
     result |-> "none"]

\* nothing outside the migration engine has run
ApiIdle ==
    /\ extractedName = <<>>
    /\ storage = StoredProjects
    /\ requests = [r \in Reqs |-> NoRequest]
    /\ handles = <<>>
    /\ txs = <<>>
    /\ creates = [c \in 1..MaxCreates |-> NoCreate(c)]
    /\ deletes = [d \in 1..MaxDeletes |-> NoDelete]
    /\ deleted = {}
    /\ wait = WaitStart(0)

NoRunner == [ptr |-> "unset", db |-> "nil"]

\* NewMigrationRunner has not started
ConnIdle ==
    /\ db = "none"
    /\ pingIdx = 0
    /\ pingErr = "nil"
    /\ runner = NoRunner
    /\ nmErr = <<>>
    /\ pingLog = <<>>
    /\ sleeps = 0
    /\ dbCloses = 0
    /\ closeCalls = <<>>

NoVerdict == [failed |-> FALSE, msg |-> "none", danger |-> <<>>]

Init ==
    /\ sql \in SplitInputs
    /\ pc = "scan"
    /\ scan = ScanInit
    /\ verdict = NoVerdict
    /\ MigIdle
    /\ connStr = "dsn"
    /\ ConnIdle
    /\ ApiIdle

\* one iteration of "for i := 0; i < len(runes); i++"
ScanRune ==
    /\ pc = "scan"
    /\ scan.i < Len(sql)
    /\ scan' = ScanStep(sql, scan)
    /\ UNCHANGED <<sql, apiVars, connVars, pc, verdict, migVars>>

\* the loop has ended: the remaining buffer is emitted and the function returns
ScanReturn ==
    /\ pc = "scan"
    /\ scan.i >= Len(sql)
    /\ scan' = Remaining(scan)
    /\ pc' = "done"
    /\ UNCHANGED <<sql, apiVars, connVars, verdict, migVars>>

Next == ScanRune \/ ScanReturn

Spec == Init /\ [][Next]_vars

----------------------------------------------------------------------------
(* Properties of the splitter                                              *)

Normal(s) == ~s.inString /\ ~s.inComment /\ ~s.inDollarQuote

\* text stands at index k of runes
OccursAt(runes, k, text) ==
    /\ k + Len(text) <= Len(runes)
    /\ Slice(runes, k, k + Len(text)) = text

\* a dollar-quote tag: '$', tag runes, '$'
IsTag(text) ==
    /\ Len(text) >= 2
    /\ text[1] = "$"
    /\ text[Len(text)] = "$"
    /\ \A k \in 2..(Len(text) - 1) : IsTagRune(text[k])

\* the step of the scan ended a statement: the buffer was reset
EndedStatement == scan'.buf = <<>>

\* C2: a statement ends only at a semicolon met in Normal mode; a semicolon
\* met inside a string literal, a line comment or a dollar-quoted region is
\* copied to the buffer and ends nothing; INSERT INTO t VALUES ('a;b''c')
\* comes out as one statement.
SemicolonSplitsOnlyInNormalMode ==
    /\ [][(pc = "scan" /\ pc' = "scan") =>
            /\ EndedStatement => (At(sql, scan.i) = ";" /\ Normal(scan))
            /\ (At(sql, scan.i) = ";" /\ ~Normal(scan)) =>
                  /\ scan'.statements = scan.statements
                  /\ scan'.buf = Append(scan.buf, ";")
                  /\ scan'.splitAt = scan.splitAt]_vars
    /\ [](pc = "done" /\ sql = ExInsert => scan.statements = <<ExInsert>>)

\* the example of C2 was split: its semicolon is inside a string that also
\* holds an escaped quote
InsertExampleSplit ==
    /\ pc = "done"
    /\ sql = ExInsert
    /\ Len(scan.statements) = 1
    /\ scan.splitAt = {}

\* C3: a statement with a dollar-quoted body comes out as exactly one
\* statement, and no string literal is left open by its body.
DollarQuotedStatementIsOne ==
    (pc = "done" /\ sql \in DollarQuotedStatements) =>
        /\ Len(scan.statements) = 1
        /\ ~scan.inString

\* C4: while a region opened with tag T is open, it is closed only at an
\* index where T stands, and a tag other than T at the index leaves the
\* region open; the remembered tag stays T as long as the region is open.
OnlyTheOpenTagCloses ==
    [][(pc = "scan" /\ pc' = "scan" /\ scan.inDollarQuote) =>
          LET T == scan.dollarQuoteTag
              other == \E n \in 2..(Len(sql) - scan.i) :
                          /\ IsTag(Slice(sql, scan.i, scan.i + n))
                          /\ Slice(sql, scan.i, scan.i + n) # T
          IN  /\ ~scan'.inDollarQuote => OccursAt(sql, scan.i, T)
              /\ scan'.inDollarQuote => scan'.dollarQuoteTag = T
              /\ other => scan'.inDollarQuote]_vars

\* the scan has passed a $b$ inside a region opened with $a$
OtherTagPassed ==
    /\ pc = "scan"
    /\ scan.inDollarQuote
    /\ scan.dollarQuoteTag = <<"$", "a", "$">>
    /\ scan.i >= 4
    /\ OccursAt(sql, scan.i - 1, <<"$", "b", "$">>)

\* C5: a statement of back-to-back dollar-quoted blocks, or one with an
\* empty body, leaves no dollar-quote open, and its final semicolon ends it.
BackToBackBlocksClose ==
    (pc = "done" /\ sql \in BackToBackStatements \cup {ExEmptyBody}) =>
        /\ ~scan.inDollarQuote
        /\ (Len(sql) - 1) \in scan.splitAt
        /\ Len(scan.statements) = 1

\* the runes after the first newline of s (none when there is no newline)
RECURSIVE AfterLine(_)
AfterLine(s) ==
    IF s = <<>> THEN <<>>
    ELSE IF Head(s) = "\n" THEN Tail(s) ELSE AfterLine(Tail(s))

\* s consists only of white space, -- line comments and semicolons
RECURSIVE OnlyBlank(_)
OnlyBlank(s) ==
    IF s = <<>> THEN TRUE
    ELSE IF IsSpace(Head(s)) \/ Head(s) = ";" THEN OnlyBlank(Tail(s))
    ELSE IF Len(s) >= 2 /\ s[1] = "-" /\ s[2] = "-" THEN OnlyBlank(AfterLine(s))
    ELSE FALSE

\* C6: the empty script and every script of only white space, line comments
\* and semicolons yield no statement.
BlankScriptYieldsNothing ==
    (pc = "done" /\ OnlyBlank(sql)) => scan.statements = <<>>

\* the pieces of runes between the indices in cuts, from index from on
RECURSIVE SegmentsFrom(_, _, _)
SegmentsFrom(runes, cuts, from) ==
    LET later == {c \in cuts : c >= from}
    IN  IF later = {} THEN <<Slice(runes, from, Len(runes))>>
        ELSE LET c == CHOOSE x \in later : \A y \in later : x <= y
             IN  <<Slice(runes, from, c)>> \o SegmentsFrom(runes, cuts, c + 1)

NotEmpty(s) == s # <<>>

TrimAll(ss) == [k \in DOMAIN ss |-> TrimSpace(ss[k])]

\* C7: the statements are non-empty and carry no white space at either
\* end; they are, in script order, the non-blank pieces of the script
\* between the terminating semicolons, without those semicolons, the piece
\* after the last terminating semicolon included.
StatementsAreTrimmedPieces ==
    pc = "done" =>
        /\ \A k \in DOMAIN scan.statements :
              LET st == scan.statements[k]
              IN  /\ st # <<>>
                  /\ ~IsSpace(st[1])
                  /\ ~IsSpace(st[Len(st)])
        /\ scan.statements =
              SelectSeq(TrimAll(SegmentsFrom(sql, scan.splitAt, 0)), NotEmpty)

\* a script with white space around its text, split once, with text after
\* the semicolon
TrailingStatementEmitted ==
    /\ pc = "done"
    /\ Cardinality(scan.splitAt) = 1
    /\ scan.statements = <<<<"a">>, <<"b">>>>
    /\ IsSpace(sql[1])
    /\ IsSpace(sql[Len(sql)])

NotSpace(c) == ~IsSpace(c)

\* runes without the indices in cuts
Without(runes, cuts) ==
    Flatten([k \in DOMAIN runes |->
                IF (k - 1) \in cuts THEN <<>> ELSE <<runes[k]>>])

\* C8: the statements, concatenated and with white space removed, are the
\* script with its terminating semicolons and its white space removed.
ContentIsPreserved ==
    pc = "done" =>
        SelectSeq(Flatten(scan.statements), NotSpace)
            = SelectSeq(Without(sql, scan.splitAt), NotSpace)

\* a script with an escaped quote and a semicolon inside a string and a
\* semicolon inside a comment was split at its one terminating semicolon
ContentCaseSplit ==
    /\ pc = "done"
    /\ sql = ExQuoted
    /\ scan.splitAt = {12}
    /\ Len(scan.statements) = 2

----------------------------------------------------------------------------
(* The validator, applied to scripts built from words                      *)

MaxWords == 4

Words ==
    {<<"D", "R", "O", "P">>, <<"d", "r", "o", "p">>,
     <<"D", "A", "T", "A", "B", "A", "S", "E">>,
     <<"S", "c", "h", "e", "m", "a">>,
     <<"T", "R", "U", "N", "C", "A", "T", "E">>,
     <<" ">>, <<"\n">>, <<"-", "-">>, <<"'">>, <<"x">>}

WordScripts(n) == {Flatten(ws) : ws \in UNION {[1..m -> Words] : m \in 0..n}}

InitValidate ==
    /\ sql \in WordScripts(MaxWords)
    /\ pc = "validate"
    /\ scan = ScanInit
    /\ verdict = NoVerdict
    /\ MigIdle
    /\ connStr = "dsn"
    /\ ConnIdle
    /\ ApiIdle

\* validateSQL(sql) is called and returns
Validate ==
    /\ pc = "validate"
    /\ verdict' = validateSQL(sql)
    /\ pc' = "done"
    /\ UNCHANGED <<sql, apiVars, connVars, scan, migVars>>

NextValidate == Validate

SpecValidate == InitValidate /\ [][NextValidate]_vars

\* c is the rune u or its lower-case form
SameLetter(c, u) ==
    \/ c = u
    \/ \E k \in DOMAIN UpperCase : UpperCase[k] = u /\ LowerCase[k] = c

\* phrase stands somewhere in script, in any letter case
MentionsAnyCase(script, phrase) ==
    \E k \in 0..(Len(script) - Len(phrase)) :
        \A j \in 1..Len(phrase) : SameLetter(script[k + j], phrase[j])

Blank(script) == \A k \in DOMAIN script : IsSpace(script[k])

Denylisted(script) ==
    \E phrase \in {DropDatabase, DropSchema, TruncateDatabase} :
        MentionsAnyCase(script, phrase)

\* C9: validateSQL fails with the reason "empty" exactly for the scripts that
\* are blank, and otherwise fails exactly for the scripts that hold a
\* denylisted phrase in any letter case, wherever the phrase stands (in a
\* string literal or a comment too); every other script passes.
ValidateRejectsExactly ==
    pc = "done" =>
        /\ (verdict.msg = "SQL cannot be empty") <=> Blank(sql)
        /\ ~Blank(sql) =>
              /\ verdict.failed <=> Denylisted(sql)
              /\ verdict.failed =>
                    /\ verdict.msg = "dangerous operation detected: "
                    /\ MentionsAnyCase(sql, verdict.danger)
        /\ verdict.failed <=> (verdict.msg # "nil")

\* a script that names a denylisted phrase in lower and mixed case after a
\* comment start was rejected
MixedCasePhraseRejected ==
    /\ pc = "done"
    /\ verdict.failed
    /\ verdict.danger = DropSchema
    /\ ~Contains(sql, DropSchema)
    /\ HasPrefix(sql, <<"-", "-">>)

----------------------------------------------------------------------------
(* MigrationRunner.ApplyMigration                                          *)

ExcerptLen == 100

Min(a, b) == IF a < b THEN a ELSE b

\* stmt[:min(len(stmt), 100)]
Excerpt(stmt) == SubSeq(stmt, 1, Min(Len(stmt), ExcerptLen))

\* mr.db.Begin(): a transaction of its own, open when Begin succeeded
TxBegin(t, ok) ==
    [t EXCEPT !.state = IF ok THEN "open" ELSE "none", !.begins = t.begins + 1]

\* tx.Commit(): ends an open transaction, durably only when the database
\* accepts the commit; on a transaction already ended it is ErrTxDone
TxCommit(t, ok) ==
    IF t.state = "open"
    THEN [t EXCEPT !.state = IF ok THEN "committed" ELSE "commit failed",
                   !.commits = t.commits + 1, !.ends = t.ends + 1]
    ELSE [t EXCEPT !.commits = t.commits + 1]

\* tx.Rollback(): ends an open transaction; on a transaction already ended
\* it is ErrTxDone and changes nothing
TxRollback(t) ==
    IF t.state = "open"
    THEN [t EXCEPT !.state = "rolled back",
                   !.rollbacks = t.rollbacks + 1, !.ends = t.ends + 1]
    ELSE [t EXCEPT !.rollbacks = t.rollbacks + 1]

\* a deferred function that never rolls back
DeferredRollbackLeftOut(res, t) == t

\* the deferred function: "if !result.Success { tx.Rollback() }"
DeferredRollback(res, t) == IF ~res.Success THEN TxRollback(t) ELSE t

\* the validation failure that goes on with the migration instead of returning
AfterValidationGoesOn(v) == "am_split"

\* where ApplyMigration goes after validateSQL returned v
AfterValidation(v) == IF v.failed THEN "am_returned" ELSE "am_split"

\* a total that takes the rows of every statement
RowsAfterAnyStatement(total, stmt, rows) == total + rows

\* a migration that returns at once when the script holds no statement
AfterSplitSkipsEmpty(stmts) == IF stmts = <<>> THEN "am_returned" ELSE "am_begin"

\* where ApplyMigration goes after splitting: to "Begin transaction",
\* whatever the number of statements
AfterSplit(stmts) == "am_begin"

\* "Track rows affected (for INSERT statements)"
RowsAfter(total, stmt, rows) ==
    IF HasPrefix(ToUpper(stmt), KwInsert) THEN total + rows ELSE total

\* a list that takes a name once
TablesAfterDistinct(tables, stmt) ==
    IF /\ HasPrefix(ToUpper(stmt), KwCreateTable)
       /\ extractTableName(stmt) # <<>>
       /\ \A k \in DOMAIN tables : tables[k] # extractTableName(stmt)
    THEN Append(tables, extractTableName(stmt))
    ELSE tables

\* "Track created tables"
TablesAfter(tables, stmt) ==
    IF HasPrefix(ToUpper(stmt), KwCreateTable) /\ extractTableName(stmt) # <<>>
    THEN Append(tables, extractTableName(stmt))
    ELSE tables

\* the text of the error validateSQL returned
ErrorText(v) == <<v.msg, v.danger>>

\* a loop that walks the statements from the last to the first
StatementAtFromEnd(stmts, i) == TrimSpace(At(stmts, Len(stmts) - 1 - i))

\* "stmt = strings.TrimSpace(stmt)" of the i-th statement of the range
StatementAt(stmts, i) == TrimSpace(At(stmts, i))

\* the loop index itself, counted from 0
StatementNumberFromZero(i) == i

\* "i+1": the number a failing statement is reported under
StatementNumber(i) == i + 1

\* a failure that reports what ran before it
StatementErrorWithCounts(res, i, stmt, tables, rows) ==
    [res EXCEPT !.Error = <<"statement ", StatementNumber(i), " failed: ",
                            "db error", "\nStatement: ", Excerpt(stmt)>>,
                !.TablesCreated = tables,
                !.RowsInserted = rows]

\* the result after tx.Exec failed on statement i; the tables and rows
\* counted so far stay in the locals
StatementError(res, i, stmt, tables, rows) ==
    [res EXCEPT !.Error = <<"statement ", StatementNumber(i), " failed: ",
                            "db error", "\nStatement: ", Excerpt(stmt)>>]

\* a result marked successful before the commit is known to have worked
CommitResultAlwaysSuccess(res, ok, tables, rows) ==
    IF ok
    THEN [res EXCEPT !.Success = TRUE, !.TablesCreated = tables,
                     !.RowsInserted = rows, !.ExecutionTime = "elapsed"]
    ELSE [res EXCEPT !.Success = TRUE,
                     !.Error = <<"failed to commit transaction: ", "db error">>]

\* the result after tx.Commit(): "Success" with the counts when it went
\* through, the error text when it did not
CommitResult(res, ok, tables, rows) ==
    IF ok
    THEN [res EXCEPT !.Success = TRUE, !.TablesCreated = tables,
                     !.RowsInserted = rows, !.ExecutionTime = "elapsed"]
    ELSE [res EXCEPT !.Error = <<"failed to commit transaction: ", "db error">>]

MaxStmts == 2

MaxRows == 2

\* CREATE TABLE IF NOT EXISTS users (id int)
StCreateUsers ==
    <<"C", "R", "E", "A", "T", "E", " ", "T", "A", "B", "L", "E", " ", "I",
      "F", " ", "N", "O", "T", " ", "E", "X", "I", "S", "T", "S", " ", "u",
      "s", "e", "r", "s", " ", "(", "i", "d", " ", "i", "n", "t", ")">>

\* INSERT INTO users VALUES (1)
StInsert1 ==
    <<"I", "N", "S", "E", "R", "T", " ", "I", "N", "T", "O", " ", "u", "s",
      "e", "r", "s", " ", "V", "A", "L", "U", "E", "S", " ", "(", "1", ")">>

\* INSERT INTO users VALUES (2)
StInsert2 ==
    <<"I", "N", "S", "E", "R", "T", " ", "I", "N", "T", "O", " ", "u", "s",
      "e", "r", "s", " ", "V", "A", "L", "U", "E", "S", " ", "(", "2", ")">>

\* SELECT 1
StSelect == <<"S", "E", "L", "E", "C", "T", " ", "1">>

\* insert into t values (3)
StInsertLower ==
    <<"i", "n", "s", "e", "r", "t", " ", "i", "n", "t", "o", " ", "t", " ",
      "v", "a", "l", "u", "e", "s", " ", "(", "3", ")">>

\* CREATE TABLE
StCreateBare ==
    <<"C", "R", "E", "A", "T", "E", " ", "T", "A", "B", "L", "E">>

\* create table public.orders (id int)
StCreateOrders ==
    <<"c", "r", "e", "a", "t", "e", " ", "t", "a", "b", "l", "e", " ", "p",
      "u", "b", "l", "i", "c", ".", "o", "r", "d", "e", "r", "s", " ", "(",
      "i", "d", " ", "i", "n", "t", ")">>

RECURSIVE Repeat(_, _)
Repeat(runes, n) == IF n = 0 THEN <<>> ELSE runes \o Repeat(runes, n - 1)

\* SELECT 1+1+ ... +1, a statement of 108 runes
StLong ==
    <<"S", "E", "L", "E", "C", "T", " ">> \o Repeat(<<"1", "+">>, 50) \o <<"1">>

StatementTexts ==
    {StCreateUsers, StInsert1, StSelect, StInsertLower, StCreateBare,
     StCreateOrders}

\* the texts, each closed by a semicolon, with a blank between two
RECURSIVE Script(_)
Script(texts) ==
    IF texts = <<>> THEN <<>>
    ELSE Head(texts) \o <<";">>
            \o (IF Len(texts) > 1 THEN <<" ">> ELSE <<>>) \o Script(Tail(texts))

\* DROP DATABASE foo;
ExDropDatabase ==
    <<"D", "R", "O", "P", " ", "D", "A", "T", "A", "B", "A", "S", "E", " ",
      "f", "o", "o", ";">>

\* select 1; drop schema s
ExDropSchema ==
    <<"s", "e", "l", "e", "c", "t", " ", "1", ";", " ", "d", "r", "o", "p",
      " ", "s", "c", "h", "e", "m", "a", " ", "s">>

RejectedScripts == {<<>>, <<" ", "\n">>, ExDropDatabase, ExDropSchema}

\* CREATE TABLE IF NOT EXISTS users (id int); INSERT INTO users VALUES (1);
\* INSERT INTO users VALUES (2);
ExUsers == Script(<<StCreateUsers, StInsert1, StInsert2>>)

\* a script whose second statement is longer than the excerpt
ExLong == Script(<<StSelect, StLong>>)

\* scripts the splitter finds no statement in
EmptyScripts == {<<";">>, <<" ", ";", ";">>}

MigInputs ==
    {Script(ts) : ts \in UNION {[1..m -> StatementTexts] : m \in 1..MaxStmts}}
        \cup RejectedScripts \cup EmptyScripts \cup {ExUsers, ExLong}

InitMigration ==
    /\ sql \in MigInputs
    /\ pc = "am_validate"
    /\ scan = ScanInit
    /\ verdict = NoVerdict
    /\ MigIdle
    /\ connStr = "dsn"
    /\ ConnIdle
    /\ ApiIdle

\* "Validate SQL": on an error the result carries its text and the call returns
ApplyValidate ==
    /\ pc = "am_validate"
    /\ verdict' = validateSQL(sql)
    /\ pc' = AfterValidation(verdict')
    /\ IF verdict'.failed
       THEN /\ result' = [result EXCEPT
                            !.Error = <<"SQL validation failed: ">>
                                          \o ErrorText(verdict')]
            /\ err' = ErrorText(verdict')
       ELSE UNCHANGED <<result, err>>
    /\ UNCHANGED <<sql, apiVars, connVars, scan, tx, statements, idx, tablesCreated,
                   totalRowsInserted, executed, reported>>

\* "Split SQL into individual statements"
ApplySplit ==
    /\ pc = "am_split"
    /\ statements' = splitSQLStatements(sql)
    /\ result' = [result EXCEPT !.StatementsRun = Len(statements')]
    /\ pc' = AfterSplit(statements')
    /\ UNCHANGED <<sql, apiVars, connVars, scan, verdict, err, tx, idx, tablesCreated,
                   totalRowsInserted, executed, reported>>

\* "Begin transaction": the database opens one or refuses
ApplyBegin ==
    /\ pc = "am_begin"
    /\ \E ok \in BOOLEAN :
          /\ tx' = TxBegin(tx, ok)
          /\ IF ok
             THEN /\ pc' = "am_loop"
                  /\ UNCHANGED <<result, err>>
             ELSE /\ result' = [result EXCEPT
                        !.Error = <<"failed to begin transaction: ", "db error">>]
                  /\ err' = <<"db error">>
                  /\ pc' = "am_returned"
    /\ UNCHANGED <<sql, apiVars, connVars, scan, verdict, statements, idx, tablesCreated,
                   totalRowsInserted, executed, reported>>

\* one iteration of "for i, stmt := range statements": the database
\* executes the statement and reports the rows, or fails
ApplyExec ==
    /\ pc = "am_loop"
    /\ idx < Len(statements)
    /\ LET stmt == StatementAt(statements, idx)
       IN  IF stmt = <<>>
           THEN /\ idx' = idx + 1
                /\ UNCHANGED <<pc, result, err, tablesCreated,
                               totalRowsInserted, executed, reported>>
           ELSE /\ executed' = Append(executed, stmt)
                /\ \/ /\ result' = StatementError(result, idx, stmt,
                                                  tablesCreated,
                                                  totalRowsInserted)
                      /\ err' = <<"failed to execute statement ",
                                  StatementNumber(idx), "db error">>
                      /\ pc' = "am_defer"
                      /\ UNCHANGED <<idx, tablesCreated, totalRowsInserted,
                                     reported>>
                   \/ \E rows \in 0..MaxRows :
                         /\ totalRowsInserted' =
                               RowsAfter(totalRowsInserted, stmt, rows)
                         /\ tablesCreated' = TablesAfter(tablesCreated, stmt)
                         /\ reported' = Append(reported, rows)
                         /\ idx' = idx + 1
                         /\ UNCHANGED <<pc, result, err>>
    /\ UNCHANGED <<sql, apiVars, connVars, scan, verdict, tx, statements>>

\* "Commit transaction", and "Success" when the commit went through
ApplyCommit ==
    /\ pc = "am_loop"
    /\ idx >= Len(statements)
    /\ \E ok \in BOOLEAN :
          /\ tx' = TxCommit(tx, ok)
          /\ result' = CommitResult(result, ok, tablesCreated,
                                    totalRowsInserted)
          /\ err' = IF ok THEN err ELSE <<"db error">>
    /\ pc' = "am_defer"
    /\ UNCHANGED <<sql, apiVars, connVars, scan, verdict, statements, idx, tablesCreated,
                   totalRowsInserted, executed, reported>>

\* the deferred function runs and ApplyMigration returns
ApplyReturn ==
    /\ pc = "am_defer"
    /\ tx' = DeferredRollback(result, tx)
    /\ pc' = "am_returned"
    /\ UNCHANGED <<sql, apiVars, connVars, scan, verdict, result, err, statements, idx,
                   tablesCreated, totalRowsInserted, executed, reported>>

NextMigration ==
    \/ ApplyValidate
    \/ ApplySplit
    \/ ApplyBegin
    \/ ApplyExec
    \/ ApplyCommit
    \/ ApplyReturn

SpecMigration == InitMigration /\ [][NextMigration]_vars

----------------------------------------------------------------------------
(* Properties of ApplyMigration                                            *)

StatementFailed == result.Error # <<>> /\ result.Error[1] = "statement "

CommitFailed ==
    result.Error # <<>> /\ result.Error[1] = "failed to commit transaction: "

\* C1: a call that opened a transaction has ended it exactly once when it
\* returns; the transaction is committed only after every statement ran
\* without error; a failed statement leaves it rolled back; after a failed
\* commit Rollback is called and nothing is committed; success is reported
\* only for a committed transaction that ran the whole script.
TransactionEndedOnce ==
    /\ result.Success => tx.state = "committed"
    /\ (pc = "am_returned" /\ tx.state # "none") =>
          /\ tx.ends = 1
          /\ tx.state \in {"committed", "rolled back", "commit failed"}
          /\ tx.state = "committed" =>
                /\ executed = statements
                /\ result.Error = <<>>
                /\ tx.rollbacks = 0
          /\ StatementFailed => (tx.state = "rolled back" /\ tx.commits = 0)
          /\ CommitFailed => (tx.state = "commit failed" /\ tx.rollbacks = 1)
          /\ result.Success <=> (tx.state = "committed")
          /\ result.Success => (err = <<>> /\ executed = statements)

\* the second statement of a script failed and the call returned
RolledBackAfterFailure ==
    /\ pc = "am_returned"
    /\ StatementFailed
    /\ Len(executed) = 2
    /\ Len(statements) = 3
    /\ tx.state = "rolled back"

\* C10: when the script is one validateSQL rejects (blank, or holding a
\* denylisted phrase), ApplyMigration returns success=false, the error text
\* "SQL validation failed: " followed by the validation message,
\* statements_run=0 and a non-nil error, and has opened no transaction and
\* executed nothing.
ValidationFailureOpensNothing ==
    (pc = "am_returned" /\ (Blank(sql) \/ Denylisted(sql))) =>
        /\ verdict.failed
        /\ ~result.Success
        /\ result.Error = <<"SQL validation failed: ">> \o err
        /\ err = <<verdict.msg, verdict.danger>>
        /\ err # <<>>
        /\ result.StatementsRun = 0
        /\ result.TablesCreated = <<>>
        /\ tx.state = "none"
        /\ tx.begins = 0
        /\ executed = <<>>
        /\ statements = <<>>

\* a script whose second statement names a denylisted phrase was rejected
DenylistedScriptRejected ==
    /\ pc = "am_returned"
    /\ sql = ExDropSchema
    /\ verdict.danger = DropSchema
    /\ ~result.Success

\* the statements the database was given are the first ones of the script
ExecutedInOrder ==
    /\ Len(executed) <= Len(statements)
    /\ executed = SubSeq(statements, 1, Len(executed))

\* C11: the statements are executed one at a time in the order the splitter
\* produced them (what the database was given is always a prefix of the
\* splitter's sequence, grown by at most one statement per step), and once
\* the execution of a statement has failed no further statement is executed.
ExecutesInOrderAndStopsAtFailure ==
    /\ []ExecutedInOrder
    /\ [][/\ Len(executed') <= Len(executed) + 1
          /\ StatementFailed => executed' = executed]_vars

\* the first of two different statements failed: the second was never run
SecondStatementNotRun ==
    /\ pc = "am_returned"
    /\ StatementFailed
    /\ statements = <<StInsert1, StSelect>>
    /\ executed = <<StInsert1>>

\* C12: when statement k, counted from 1 in the splitter's order, is the
\* first to fail (the k-1 before it ran without error and it is the last one
\* the database was given), the result's error text and the returned error
\* both name k, and the error text ends with an excerpt of that statement's
\* trimmed text: its first 100 characters, the whole text when it is shorter.
FailureNamesStatement ==
    (pc = "am_returned" /\ StatementFailed) =>
        LET k == Len(executed)
            excerpt == result.Error[6]
        IN  /\ k \in 1..Len(statements)
            /\ Len(reported) = k - 1
            /\ result.Error[2] = k
            /\ err[1] = "failed to execute statement "
            /\ err[2] = k
            /\ Len(excerpt) <= 100
            /\ excerpt = SubSeq(TrimSpace(statements[k]), 1, Len(excerpt))
            /\ Len(excerpt) = 100 \/ excerpt = TrimSpace(statements[k])

\* the second of the three statements of the example script failed
SecondOfThreeFailed ==
    /\ pc = "am_returned"
    /\ sql = ExUsers
    /\ Len(statements) = 3
    /\ Len(reported) = 1
    /\ result.Error[2] = 2
    /\ result.Error[6] = StInsert1

\* a failing statement of 108 characters is reported by its first 100
LongStatementCut ==
    /\ pc = "am_returned"
    /\ StatementFailed
    /\ executed[Len(executed)] = StLong
    /\ Len(result.Error[6]) = 100

\* C13: in every result ApplyMigration returns, statements_run is the number
\* of statements whose execution was attempted (the statements the database
\* was given): all of them on success, k after a failure at statement k, and
\* none when the transaction could not be opened.
StatementsRunCountsAttempts ==
    pc = "am_returned" => result.StatementsRun = Len(executed)

\* stmt starts with the keyword kw in any letter case
BeginsWith(stmt, kw) ==
    /\ Len(stmt) >= Len(kw)
    /\ \A j \in 1..Len(kw) : SameLetter(stmt[j], kw[j])

\* the rows the database reported for the INSERT statements among the first n
RECURSIVE RowsOfInserts(_)
RowsOfInserts(n) ==
    IF n = 0 THEN 0
    ELSE RowsOfInserts(n - 1)
            + (IF BeginsWith(statements[n], KwInsert) THEN reported[n] ELSE 0)

Users == <<"u", "s", "e", "r", "s">>

\* C14: on success, rows_inserted is the sum of the row counts the database
\* reported for exactly the statements that begin, in any letter case, with
\* INSERT; for the example script (CREATE TABLE IF NOT EXISTS users ...; two
\* INSERTs of one row each, for which the database reports one row each) the
\* result is success=true, tables_created=[users], rows_inserted=2,
\* statements_run=3.
RowsInsertedSumsInserts ==
    (pc = "am_returned" /\ result.Success) =>
        /\ Len(reported) = Len(statements)
        /\ result.RowsInserted = RowsOfInserts(Len(statements))
        /\ (sql = ExUsers /\ reported[2] = 1 /\ reported[3] = 1) =>
              /\ result.TablesCreated = <<Users>>
              /\ result.RowsInserted = 2
              /\ result.StatementsRun = 3

\* the example script ran; the database reported rows for the CREATE TABLE
\* too, and one row for each INSERT
ExampleScriptSucceeded ==
    /\ pc = "am_returned"
    /\ sql = ExUsers
    /\ result.Success
    /\ reported = <<2, 1, 1>>
    /\ result.RowsInserted = 2

\* a lower-case insert was counted
LowerCaseInsertCounted ==
    /\ pc = "am_returned"
    /\ result.Success
    /\ statements = <<StSelect, StInsertLower>>
    /\ reported = <<1, 2>>
    /\ result.RowsInserted = 2

\* the names the CREATE TABLE statements among the first n give, in order
RECURSIVE NamesOfCreates(_)
NamesOfCreates(n) ==
    IF n = 0 THEN <<>>
    ELSE NamesOfCreates(n - 1)
            \o (IF /\ BeginsWith(statements[n], KwCreateTable)
                   /\ extractTableName(statements[n]) # <<>>
                THEN <<extractTableName(statements[n])>>
                ELSE <<>>)

\* C15: on success, tables_created holds one entry for each executed
\* statement that begins, in any letter case, with CREATE TABLE and gives a
\* non-empty name, in the order of execution; a name created by several
\* statements stands once per statement.
TablesCreatedKeepsEveryCreate ==
    (pc = "am_returned" /\ result.Success) =>
        /\ executed = statements
        /\ result.TablesCreated = NamesOfCreates(Len(statements))

\* the same table was created twice, and is listed twice
SameTableListedTwice ==
    /\ pc = "am_returned"
    /\ result.Success
    /\ statements = <<StCreateUsers, StCreateUsers>>
    /\ result.TablesCreated = <<Users, Users>>

\* a lower-case create gave its name, a CREATE TABLE without a name gave none
NamelessCreateSkipped ==
    /\ pc = "am_returned"
    /\ result.Success
    /\ statements = <<StCreateBare, StCreateOrders>>
    /\ result.TablesCreated = <<<<"o", "r", "d", "e", "r", "s">>>>

\* the call got past validation and the splitter found no statement
NoStatements == pc = "am_returned" /\ ~verdict.failed /\ statements = <<>>

\* C16 as stated: a script that passes validation and holds no statement is
\* a no-op success: success=true, statements_run=0, no tables, no rows, a nil
\* error, and no statement executed.
EmptyScriptIsNoOpSuccess ==
    NoStatements =>
        /\ result.Success
        /\ result.StatementsRun = 0
        /\ result.TablesCreated = <<>>
        /\ result.RowsInserted = 0
        /\ err = <<>>
        /\ executed = <<>>

\* C16, amended: a script that passes validation and holds no statement has
\* no statement executed and reports statements_run=0, no tables and no
\* rows, but the call is not a no-op: it opens a transaction and commits it,
\* and it returns success=true with a nil error exactly when the database
\* opened and committed that transaction; when Begin or Commit fails it
\* returns success=false with that failure.
EmptyScriptCommitsEmptyTransaction ==
    NoStatements =>
        /\ executed = <<>>
        /\ result.StatementsRun = 0
        /\ result.TablesCreated = <<>>
        /\ result.RowsInserted = 0
        /\ tx.begins = 1
        /\ tx.state \in {"none", "committed", "commit failed"}
        /\ tx.state # "none" => tx.commits = 1
        /\ result.Success <=> tx.state = "committed"
        /\ result.Success <=> err = <<>>
        /\ tx.state = "none" =>
              result.Error = <<"failed to begin transaction: ", "db error">>
        /\ tx.state = "commit failed" =>
              result.Error = <<"failed to commit transaction: ", "db error">>

\* the script ";" went through: an empty transaction was committed
EmptyTransactionCommitted ==
    /\ pc = "am_returned"
    /\ sql = <<";">>
    /\ statements = <<>>
    /\ tx.state = "committed"
    /\ result.Success

\* a failure the database caused, whatever the result says: the validation
\* refused the script, Begin was refused, a statement given to the database
\* was not run, or the commit was refused
SomethingFailed ==
    \/ verdict.failed
    \/ tx.begins = 1 /\ tx.state = "none"
    \/ Len(executed) > Len(reported)
    \/ tx.state = "commit failed"

\* C17: the returned error is nil exactly when the result has success=true;
\* on every failure (validation, opening the transaction, a statement, the
\* commit) the result has success=false and a non-empty error text, and the
\* error value is not nil; without a failure the call succeeds.
NilErrorIffSuccess ==
    pc = "am_returned" =>
        /\ err = <<>> <=> result.Success
        /\ result.Success <=> ~SomethingFailed
        /\ ~result.Success => (result.Error # <<>> /\ err # <<>>)
        /\ result.Success => result.Error = <<>>

\* the commit was refused after both statements ran
CommitRefusalReturned ==
    /\ pc = "am_returned"
    /\ tx.state = "commit failed"
    /\ Len(reported) = 2
    /\ ~result.Success
    /\ err = <<"db error">>

\* C18: whenever ApplyMigration returns success=false, tables_created is
\* empty and rows_inserted is 0, whatever ran before the failure.
FailureReportsNoCounts ==
    (pc = "am_returned" /\ ~result.Success) =>
        /\ result.TablesCreated = <<>>
        /\ result.RowsInserted = 0

\* a statement failed after a table was created and rows were inserted
FailedAfterTableAndRows ==
    /\ pc = "am_returned"
    /\ StatementFailed
    /\ tablesCreated = <<Users>>
    /\ totalRowsInserted > 0
    /\ result.TablesCreated = <<>>

----------------------------------------------------------------------------
(* NewMigrationRunner and MigrationRunner.Close                            *)

\* "for i := 0; i < 3; i++"
Retries == 3

MaxCloses == 2

\* what db.Ping() can return
PingErrors == {"timeout", "refused", "auth"}

\* a loop without the break
StopProbingAfterAll(e, k) == k + 1 >= Retries

\* the loop ends after this probe: "if pingErr == nil { break }", or the
\* index has reached the number of probes
StopProbing(e, k) == e = "nil" \/ k + 1 >= Retries

InitConnect ==
    /\ sql = <<>>
    /\ pc = "nm_start"
    /\ scan = ScanInit
    /\ verdict = NoVerdict
    /\ MigIdle
    /\ connStr \in {"", "dsn"}
    /\ ConnIdle
    /\ ApiIdle

\* the connection string is read and the handle opened; without a string,
\* or when sql.Open fails, NewMigrationRunner returns nil and an error
NewOpen ==
    /\ pc = "nm_start"
    /\ IF connStr = ""
       THEN /\ runner' = [ptr |-> "nil", db |-> "nil"]
            /\ nmErr' = <<"no database connection string available">>
            /\ pc' = "nm_returned"
            /\ UNCHANGED db
       ELSE \E ok \in BOOLEAN :
               IF ok
               THEN /\ db' = "open"
                    /\ pc' = "nm_ping"
                    /\ UNCHANGED <<runner, nmErr>>
               ELSE /\ runner' = [ptr |-> "nil", db |-> "nil"]
                    /\ nmErr' = <<"failed to open database connection: ",
                                  "open error">>
                    /\ pc' = "nm_returned"
                    /\ UNCHANGED db
    /\ UNCHANGED <<sql, apiVars, scan, verdict, migVars, connStr, pingIdx, pingErr,
                   pingLog, sleeps, dbCloses, closeCalls>>

\* one iteration of "Ping with retry": the probe, and after a failed probe
\* the sleep
NewPing ==
    /\ pc = "nm_ping"
    /\ pingIdx < Retries
    /\ \E e \in PingErrors \cup {"nil"} :
          /\ pingErr' = e
          /\ pingLog' = Append(pingLog, e)
          /\ sleeps' = IF e = "nil" THEN sleeps ELSE sleeps + 1
          /\ pingIdx' = IF e = "nil" THEN pingIdx ELSE pingIdx + 1
          /\ pc' = IF StopProbing(e, pingIdx) THEN "nm_check" ELSE "nm_ping"
    /\ UNCHANGED <<sql, apiVars, scan, verdict, migVars, connStr, db, runner, nmErr,
                   dbCloses, closeCalls>>

\* after the loop: the handle is closed and the last probe's error wrapped,
\* or the runner is returned
NewReturn ==
    /\ pc = "nm_check"
    /\ IF pingErr # "nil"
       THEN /\ db' = "closed"
            /\ dbCloses' = dbCloses + 1
            /\ runner' = [ptr |-> "nil", db |-> "nil"]
            /\ nmErr' = <<"failed to connect to database after retries: ",
                          pingErr>>
       ELSE /\ runner' = [ptr |-> "runner", db |-> "db"]
            /\ nmErr' = <<>>
            /\ UNCHANGED <<db, dbCloses>>
    /\ pc' = "nm_returned"
    /\ UNCHANGED <<sql, apiVars, scan, verdict, migVars, connStr, pingIdx, pingErr,
                   pingLog, sleeps, closeCalls>>

\* the caller calls Close on what NewMigrationRunner returned: reading the
\* field db of a nil runner is a nil pointer dereference, which panics; on a
\* runner the handle is closed, and closing a closed handle returns nil
Close ==
    /\ pc = "nm_returned"
    /\ Len(closeCalls) < MaxCloses
    /\ IF runner.ptr = "nil"
       THEN /\ closeCalls' = Append(closeCalls, "panic")
            /\ pc' = "nm_crashed"
            /\ UNCHANGED <<db, dbCloses>>
       ELSE IF runner.db # "nil"
            THEN /\ dbCloses' = dbCloses + 1
                 /\ db' = "closed"
                 /\ \E e \in (IF db = "open" THEN {"nil", "close error"}
                                             ELSE {"nil"}) :
                       closeCalls' = Append(closeCalls, e)
                 /\ UNCHANGED pc
            ELSE /\ closeCalls' = Append(closeCalls, "nil")
                 /\ UNCHANGED <<pc, db, dbCloses>>
    /\ UNCHANGED <<sql, apiVars, scan, verdict, migVars, connStr, pingIdx, pingErr,
                   runner, nmErr, pingLog, sleeps>>

NextConnect ==
    \/ NewOpen
    \/ NewPing
    \/ NewReturn
    \/ Close

SpecConnect == InitConnect /\ [][NextConnect]_vars

\* NewMigrationRunner is straight-line code around a bounded loop: a call
\* that has started keeps running
SpecConnectLive ==
    /\ InitConnect
    /\ [][NextConnect]_vars
    /\ WF_vars(NewOpen)
    /\ WF_vars(NewPing)
    /\ WF_vars(NewReturn)

----------------------------------------------------------------------------
(* Properties of NewMigrationRunner and Close                              *)

Returned == pc \in {"nm_returned", "nm_crashed"}

\* at most 3 probes, none after a probe that succeeded; after the probes, a
\* runner holding the open handle when the last probe succeeded, and after
\* 3 failed probes no runner and the last probe's error, wrapped
ProbesBounded ==
    /\ Len(pingLog) <= 3
    /\ \A k \in 1..(Len(pingLog) - 1) : pingLog[k] # "nil"
    /\ (Returned /\ pingLog # <<>>) =>
          IF pingLog[Len(pingLog)] = "nil"
          THEN /\ runner = [ptr |-> "runner", db |-> "db"]
               /\ nmErr = <<>>
               /\ closeCalls = <<>> => db = "open"
          ELSE /\ Len(pingLog) = 3
               /\ runner.ptr = "nil"
               /\ nmErr = <<"failed to connect to database after retries: ",
                            pingLog[3]>>
    /\ (~Returned /\ pingLog # <<>> /\ pingLog[Len(pingLog)] # "nil"
            /\ Len(pingLog) < 3) => pc = "nm_ping"

\* C19: NewMigrationRunner makes at most 3 connectivity probes, makes no
\* probe after one that succeeded and then returns a usable runner; when all
\* 3 probes fail it returns no runner and an error that wraps the error of
\* the last probe; and every call returns.
ProbesAtMostThreeTimes == []ProbesBounded /\ <>Returned

\* three probes failed, the last one for another reason than the first two
ThirdProbeFailedToo ==
    /\ pc = "nm_returned"
    /\ pingLog = <<"timeout", "timeout", "refused">>
    /\ runner.ptr = "nil"
    /\ nmErr[2] = "refused"

\* the second probe succeeded and the runner was returned
SecondProbeSucceeded ==
    /\ pc = "nm_returned"
    /\ pingLog = <<"refused", "nil">>
    /\ runner.ptr = "runner"
    /\ db = "open"

\* C20: Close is safe in every state: a second Close on a runner is a no-op
\* that returns nil, and Close on what NewMigrationRunner returned after a
\* failed acquisition is a no-op that neither fails nor crashes.
CloseIsAlwaysSafe ==
    /\ pc # "nm_crashed"
    /\ \A k \in DOMAIN closeCalls :
          /\ closeCalls[k] # "panic"
          /\ k >= 2 => closeCalls[k] = "nil"
          /\ nmErr # <<>> => closeCalls[k] = "nil"

\* the half of C20 that holds: on a runner, every Close after the first
\* returns nil and leaves the handle closed
SecondCloseReturnsNil ==
    runner.ptr = "runner" =>
        \A k \in DOMAIN closeCalls :
            /\ closeCalls[k] # "panic"
            /\ k >= 2 => closeCalls[k] = "nil"
            /\ db = "closed"

----------------------------------------------------------------------------
(* The tokenizer modes of the splitter                                     *)

\* C23: at every position of the scan at most one of the flags inString,
\* inComment and inDollarQuote is true (the scanner is in Normal mode or in
\* exactly one of the three others), and the remembered dollar-quote tag is
\* non-empty, and a tag, exactly when inDollarQuote is true.
OneModeAtATime ==
    /\ ~(scan.inString /\ scan.inComment)
    /\ ~(scan.inString /\ scan.inDollarQuote)
    /\ ~(scan.inComment /\ scan.inDollarQuote)
    /\ scan.inDollarQuote <=> scan.dollarQuoteTag # <<>>
    /\ scan.inDollarQuote => IsTag(scan.dollarQuoteTag)

\* a region opened with $a$ was closed again and its tag forgotten, and the
\* quote after it opened a string
RegionClosedThenString ==
    /\ pc = "scan"
    /\ sql = <<"$", "a", "$", " ", "$", "a", "$", "'">>
    /\ scan.i = 8
    /\ scan.inString
    /\ scan.dollarQuoteTag = <<>>

\* C24: a line comment starts only where "--" stands and the scanner is in
\* neither a string literal nor a dollar-quoted region; from there up to and
\* including the next newline no other mode changes (a quote or a
\* dollar-quote tag inside the comment opens nothing, each rune moves the
\* scan by one), a rune other than the newline leaves the comment open, and
\* after the newline the scanner is in Normal mode.
CommentIsOpaque ==
    [][(pc = "scan" /\ pc' = "scan") =>
          LET char == At(sql, scan.i)
          IN  /\ (~scan.inComment /\ scan'.inComment) =>
                    /\ ~scan.inString
                    /\ ~scan.inDollarQuote
                    /\ OccursAt(sql, scan.i, <<"-", "-">>)
              /\ scan.inComment =>
                    /\ ~scan'.inString
                    /\ ~scan'.inDollarQuote
                    /\ scan'.dollarQuoteTag = <<>>
                    /\ scan'.i = scan.i + 1
                    /\ scan'.inComment <=> char # "\n"
                    /\ char = "\n" => Normal(scan')]_vars

\* the scan has passed a comment that holds a quote and a dollar-quote tag,
\* and its newline
CommentWithQuotePassed ==
    /\ pc = "scan"
    /\ sql = ExComment
    /\ scan.i = 14
    /\ Normal(scan)
    /\ scan.buf = SubSeq(ExComment, 1, 14)

\* C26: the delay is taken only between two consecutive probes: a call that
\* has returned after n probes has made n - 1 delays, so after 3 failed
\* probes there are exactly 2 delays.
DelayOnlyBetweenProbes ==
    (Returned /\ pingLog # <<>>) =>
        /\ sleeps = Len(pingLog) - 1
        /\ (Len(pingLog) = 3 /\ pingLog[3] # "nil") => sleeps = 2

----------------------------------------------------------------------------
(* extractTableName on CREATE TABLE statements                             *)

MaxParts == 3

\* the names a qualified table name is made of
NameParts == {<<"a">>, <<"b">>, <<"c">>, <<"u", "s", "e", "r", "s">>,
              <<"p", "u", "b", "l", "i", "c">>}

\* the parts joined by dots
RECURSIVE Dotted(_)
Dotted(parts) ==
    IF Len(parts) = 1 THEN parts[1]
    ELSE parts[1] \o <<".">> \o Dotted(Tail(parts))

QualifiedNames ==
    {Dotted(ps) : ps \in UNION {[1..n -> NameParts] : n \in 1..MaxParts}}

\* the name as it stands in a statement: bare, in double quotes, or
\* followed at once by the parenthesis
NameTokens ==
    UNION {{q, <<"\"">> \o q \o <<"\"">>, q \o <<"(">>} : q \in QualifiedNames}

\* CREATE TABLE IF NOT EXISTS, with its blank
CreateTableIfNotExists ==
    KwCreateTable \o <<" ", "I", "F", " ", "N", "O", "T", " ", "E", "X", "I",
                       "S", "T", "S">>

\* CREATE TABLE [IF NOT EXISTS] name (id int)
CreateStatements ==
    {head \o <<" ">> \o token \o <<" ", "(", "i", "d", " ", "i", "n", "t", ")">> :
        head \in {KwCreateTable, CreateTableIfNotExists}, token \in NameTokens}

InitExtract ==
    /\ sql \in CreateStatements
    /\ pc = "extract"
    /\ scan = ScanInit
    /\ verdict = NoVerdict
    /\ MigIdle
    /\ connStr = "dsn"
    /\ ConnIdle
    /\ ApiIdle

\* extractTableName is called on the statement
Extract ==
    /\ pc = "extract"
    /\ extractedName' = extractTableName(sql)
    /\ pc' = "extracted"
    /\ UNCHANGED <<sql, scan, verdict, migVars, connVars, storage, schemaVars,
                   projectVars, wait>>

NextExtract == Extract

SpecExtract == InitExtract /\ [][NextExtract]_vars

\* the token that follows CREATE TABLE, or CREATE TABLE IF NOT EXISTS
NameToken(stmt) ==
    LET parts == Fields(stmt)
    IN  IF BeginsWith(parts[3], KwIf) /\ Len(parts[3]) = 2 THEN parts[6]
        ELSE parts[3]

\* what stands after the last '.' of the token, the whole token without one
AfterLastDot(token) ==
    LET dots == {k \in DOMAIN token : token[k] = "."}
    IN  IF dots = {} THEN token
        ELSE SubSeq(token, (CHOOSE k \in dots : \A m \in dots : m <= k) + 1,
                    Len(token))

\* the token without a trailing '(' and without the double quotes around it
Unwrapped(token) ==
    LET noParen == IF token # <<>> /\ token[Len(token)] = "("
                   THEN SubSeq(token, 1, Len(token) - 1) ELSE token
    IN  SelectSeq(noParen, LAMBDA c : c # "\"")

\* C25: for a CREATE TABLE statement extractTableName skips IF NOT EXISTS
\* when present, takes the next token as the name, removes what stands up to
\* and including the last '.' of the token, then a trailing '(' and the
\* double quotes around it: a.b.c gives c and public.users gives users.
NameFollowsLastDot ==
    pc = "extracted" => extractedName = Unwrapped(AfterLastDot(NameToken(sql)))

\* the part of C25 that holds: a name with at most one '.' comes out as the
\* claim says, with or without IF NOT EXISTS
SingleQualifierStripped ==
    (pc = "extracted"
        /\ Cardinality({k \in DOMAIN sql : sql[k] = "."}) <= 1) =>
            extractedName = Unwrapped(AfterLastDot(NameToken(sql)))

----------------------------------------------------------------------------
(* Handler.ApplySchema, any number of requests at a time                   *)

\* a handle that is shared: sql.Open gives every caller the first one
OpenHandleShared(hs, r) ==
    IF hs # <<>> THEN hs
    ELSE <<[openedBy |-> r, state |-> "open", usedBy |-> {}, closedBy |-> {}]>>

\* sql.Open in NewMigrationRunner: every call makes a *sql.DB of its own,
\* held only in the locals of the call and in the runner it returns
OpenHandle(hs, r) ==
    Append(hs, [openedBy |-> r, state |-> "open", usedBy |-> {},
                closedBy |-> {}])

\* request r pings handle h or begins a transaction on it
UseHandle(hs, h, r) == [hs EXCEPT ![h].usedBy = @ \cup {r}]

\* request r calls Close on handle h
CloseHandle(hs, h, r) ==
    [hs EXCEPT ![h].state = "closed", ![h].closedBy = @ \cup {r}]

\* mr.db.Begin() of request r: a *sql.Tx of its own on the runner's handle
BeginTx(ts, h, r) ==
    Append(ts, [handle |-> h, begunBy |-> r, state |-> "open", usedBy |-> {}])

\* request r executes on transaction t and ends it
EndTx(ts, t, r, state) ==
    [ts EXCEPT ![t].usedBy = @ \cup {r}, ![t].state = state]

\* a handler that checks only that the project exists
ProjectReadyAlways(status) == TRUE

\* "Check if project is ready"
ProjectReady(status) == status = "ACTIVE_HEALTHY"

\* a handler whose Close runs only on the successful path
AfterApplyCloseOnSuccess(code) == IF code = 200 THEN "as_close" ELSE "as_done"

\* after ApplyMigration returned the handler answers and returns, and the
\* deferred runner.Close() runs, whatever the answer
AfterApply(code) == "as_close"

InitSchema ==
    /\ sql = <<>>
    /\ pc = "serving"
    /\ scan = ScanInit
    /\ verdict = NoVerdict
    /\ MigIdle
    /\ connStr = "dsn"
    /\ ConnIdle
    /\ ApiIdle

\* the id is read and the body bound; a body that does not bind is answered
\* with 400
SchemaBind(r) ==
    /\ requests[r].pc = "as_bind"
    /\ \E p \in Projects, ok \in BOOLEAN :
          requests' = [requests EXCEPT ![r] =
                          IF ok
                          THEN [@ EXCEPT !.project = p, !.pc = "as_get"]
                          ELSE [@ EXCEPT !.project = p, !.code = 400,
                                         !.pc = "as_done"]]
    /\ UNCHANGED <<storage, handles, txs>>

\* "Get project from storage" and "Check if project is ready"
SchemaGet(r) ==
    /\ requests[r].pc = "as_get"
    /\ \E dbok \in BOOLEAN :
          LET status == storage[requests[r].project]
          IN  requests' = [requests EXCEPT ![r] =
                  IF ~dbok \/ status = "absent"
                  THEN [@ EXCEPT !.code = 404, !.pc = "as_done"]
                  ELSE IF ~ProjectReady(status)
                  THEN [@ EXCEPT !.code = 400, !.pc = "as_done"]
                  ELSE [@ EXCEPT !.pc = "as_new"]]
    /\ UNCHANGED <<storage, handles, txs>>

\* "Create migration runner": NewMigrationRunner returns without a handle
\* (no connection string, or sql.Open failed), closes the handle it opened
\* after the probes failed, or returns the runner that holds the handle
SchemaNew(r) ==
    /\ requests[r].pc = "as_new"
    /\ \E outcome \in {"no handle", "probes failed", "connected"} :
          LET opened == OpenHandle(handles, r)
              h == Len(opened)
          IN  CASE outcome = "no handle" ->
                     /\ requests' = [requests EXCEPT ![r].code = 500,
                                                     ![r].pc = "as_done"]
                     /\ UNCHANGED handles
                [] outcome = "probes failed" ->
                     /\ handles' = CloseHandle(UseHandle(opened, h, r), h, r)
                     /\ requests' = [requests EXCEPT ![r].code = 500,
                                                     ![r].pc = "as_done"]
                [] outcome = "connected" ->
                     /\ handles' = UseHandle(opened, h, r)
                     /\ requests' = [requests EXCEPT ![r].runner = h,
                                                     ![r].pc = "as_apply"]
    /\ UNCHANGED <<storage, txs>>

\* "Apply migration", up to Begin: the script is rejected, or Begin is
\* called on the runner's handle and fails or returns a transaction
SchemaApply(r) ==
    /\ requests[r].pc = "as_apply"
    /\ \E outcome \in {"rejected", "begin failed", "begun"} :
          LET h == requests[r].runner
              begun == BeginTx(txs, h, r)
          IN  CASE outcome = "rejected" ->
                     /\ requests' = [requests EXCEPT
                                        ![r].applyCalls = @ + 1,
                                        ![r].code = 500,
                                        ![r].pc = AfterApply(500)]
                     /\ UNCHANGED <<handles, txs>>
                [] outcome = "begin failed" ->
                     /\ handles' = UseHandle(handles, h, r)
                     /\ requests' = [requests EXCEPT
                                        ![r].applyCalls = @ + 1,
                                        ![r].code = 500,
                                        ![r].pc = AfterApply(500)]
                     /\ UNCHANGED txs
                [] outcome = "begun" ->
                     /\ handles' = UseHandle(handles, h, r)
                     /\ txs' = begun
                     /\ requests' = [requests EXCEPT
                                        ![r].applyCalls = @ + 1,
                                        ![r].tx = Len(begun),
                                        ![r].pc = "as_exec"]
    /\ UNCHANGED storage

\* the rest of ApplyMigration: the statements run on the transaction, which
\* is rolled back after a failure or committed; then the handler answers
SchemaExec(r) ==
    /\ requests[r].pc = "as_exec"
    /\ \E state \in {"rolled back", "commit failed", "committed"} :
          LET code == IF state = "committed" THEN 200 ELSE 500
          IN  /\ txs' = EndTx(txs, requests[r].tx, r, state)
              /\ requests' = [requests EXCEPT ![r].code = code,
                                              ![r].pc = AfterApply(code)]
    /\ UNCHANGED <<storage, handles>>

\* "defer runner.Close()"
SchemaClose(r) ==
    /\ requests[r].pc = "as_close"
    /\ handles' = CloseHandle(handles, requests[r].runner, r)
    /\ requests' = [requests EXCEPT ![r].pc = "as_done"]
    /\ UNCHANGED <<storage, txs>>

NextSchema ==
    \E r \in Reqs :
        /\ \/ SchemaBind(r)
           \/ SchemaGet(r)
           \/ SchemaNew(r)
           \/ SchemaApply(r)
           \/ SchemaExec(r)
           \/ SchemaClose(r)
        /\ UNCHANGED <<sql, pc, scan, verdict, migVars, connVars,
                       extractedName, projectVars, wait>>

SpecSchema == InitSchema /\ [][NextSchema]_vars

----------------------------------------------------------------------------
(* Properties of ApplySchema                                               *)

HandlesOpenedBy(r) == {h \in DOMAIN handles : handles[h].openedBy = r}

TxsBegunBy(r) == {t \in DOMAIN txs : txs[t].begunBy = r}

\* C21: every handle opened for a request is closed when the request has
\* ended: a request that ended without a runner (the probes failed) left
\* the handle NewMigrationRunner opened closed, and a request that got a
\* runner closed it, whether ApplyMigration succeeded (200) or failed (500).
HandleClosedWhenRequestEnds ==
    \A r \in Reqs :
        requests[r].pc = "as_done" =>
            /\ \A h \in HandlesOpenedBy(r) : handles[h].state = "closed"
            /\ requests[r].runner # 0 =>
                  /\ requests[r].runner \in HandlesOpenedBy(r)
                  /\ r \in handles[requests[r].runner].closedBy

\* a request whose ApplyMigration failed has ended, its handle closed
FailedMigrationClosedHandle ==
    \E r \in Reqs :
        /\ requests[r].pc = "as_done"
        /\ requests[r].applyCalls = 1
        /\ requests[r].code = 500
        /\ requests[r].tx # 0
        /\ txs[requests[r].tx].state = "rolled back"
        /\ handles[requests[r].runner].state = "closed"

\* C22: in every interleaving of the requests each handle and each
\* transaction is used by the request that made it and by no other, a
\* request's runner and transaction are its own, a transaction runs on its
\* own request's handle, and a handle is closed only by the request that
\* opened it, so never while another request uses it.
HandlesAndTxsAreOwn ==
    /\ \A h \in DOMAIN handles :
          /\ handles[h].usedBy \subseteq {handles[h].openedBy}
          /\ handles[h].closedBy \subseteq {handles[h].openedBy}
    /\ \A t \in DOMAIN txs :
          /\ txs[t].usedBy \subseteq {txs[t].begunBy}
          /\ handles[txs[t].handle].openedBy = txs[t].begunBy
    /\ \A r \in Reqs :
          /\ requests[r].runner # 0 => requests[r].runner \in HandlesOpenedBy(r)
          /\ requests[r].tx # 0 => requests[r].tx \in TxsBegunBy(r)
    /\ \A r1, r2 \in Reqs :
          (r1 # r2 /\ requests[r1].runner # 0) =>
              /\ requests[r1].runner # requests[r2].runner
              /\ requests[r1].tx # 0 => requests[r1].tx # requests[r2].tx

\* one request has closed its handle while the other is inside its
\* transaction on a handle that is still open
ClosedWhileOtherInTransaction ==
    \E r1, r2 \in Reqs :
        /\ requests[r1].pc = "as_done"
        /\ requests[r1].runner # 0
        /\ handles[requests[r1].runner].state = "closed"
        /\ requests[r2].pc = "as_exec"
        /\ txs[requests[r2].tx].state = "open"
        /\ handles[requests[r2].runner].state = "open"

\* C27: a request calls ApplyMigration at most once; it opens a connection,
\* calls ApplyMigration or begins a transaction only for a project that is
\* in storage with status ACTIVE_HEALTHY; for an unknown project or another
\* status it ends with an error answer (404 or 400), no connection opened
\* and nothing executed.
OnlyReadyProjectsAreMigrated ==
    \A r \in Reqs :
        LET touched == \/ HandlesOpenedBy(r) # {}
                       \/ TxsBegunBy(r) # {}
                       \/ requests[r].applyCalls > 0
                       \/ requests[r].runner # 0
            ready == /\ requests[r].project \in Projects
                     /\ storage[requests[r].project] = "ACTIVE_HEALTHY"
        IN  /\ requests[r].applyCalls <= 1
            /\ Cardinality(TxsBegunBy(r)) <= requests[r].applyCalls
            /\ Cardinality(HandlesOpenedBy(r)) <= 1
            /\ touched => ready
            /\ (requests[r].pc = "as_done" /\ ~ready) =>
                  /\ requests[r].code \in {400, 404}
                  /\ ~touched
            /\ (requests[r].pc = "as_done" /\ requests[r].code = 200) =>
                  requests[r].applyCalls = 1

\* a request for the project that is still coming up was refused with 400,
\* while a request for the ready project committed its migration
NotReadyRefused ==
    \E r1, r2 \in Reqs :
        /\ requests[r1].pc = "as_done"
        /\ requests[r1].project = "p2"
        /\ requests[r1].code = 400
        /\ requests[r2].pc = "as_done"
        /\ requests[r2].project = "p1"
        /\ requests[r2].code = 200

----------------------------------------------------------------------------
(* CreateProject with its background task, and DeleteProject               *)

\* the ids of the projects the CreateProject requests make (uuid.New())
CreatedIds == 1..MaxCreates

\* SaveProject: INSERT ... ON CONFLICT(id) DO UPDATE, so the row is written
\* whether or not one is there
SaveProject(st, id, status) == [st EXCEPT ![id] = status]

\* UpdateProjectStatus: UPDATE ... WHERE id = ?, which changes a row only
\* when there is one
UpdateProjectStatus(st, id, status) ==
    IF st[id] # "absent" THEN [st EXCEPT ![id] = status] ELSE st

\* DeleteProject of the storage: DELETE FROM projects WHERE id = ?
DeleteRow(st, id) == [st EXCEPT ![id] = "absent"]

InitProjects ==
    /\ sql = <<>>
    /\ pc = "serving"
    /\ scan = ScanInit
    /\ verdict = NoVerdict
    /\ MigIdle
    /\ connStr = "dsn"
    /\ ConnIdle
    /\ extractedName = <<>>
    /\ storage = [id \in CreatedIds |-> "absent"]
    /\ requests = [r \in Reqs |-> NoRequest]
    /\ handles = <<>>
    /\ txs = <<>>
    /\ creates = [c \in 1..MaxCreates |-> NoCreate(c)]
    /\ deletes = [d \in 1..MaxDeletes |-> NoDelete]
    /\ deleted = {}
    /\ wait = WaitStart(0)

\* "Create project via Supabase API": without a project the request ends
CreateCall(c) ==
    /\ creates[c].pc = "cp_create"
    /\ \E ok \in BOOLEAN :
          creates' = [creates EXCEPT ![c].pc = IF ok THEN "cp_save"
                                               ELSE "cp_done"]
    /\ UNCHANGED <<storage, deletes, deleted>>

\* "Store initial project data" (a failure is only logged), then the
\* background task is started and the request answered
CreateSave(c) ==
    /\ creates[c].pc = "cp_save"
    /\ \E ok \in BOOLEAN :
          storage' = IF ok THEN SaveProject(storage, creates[c].id, "COMING_UP")
                     ELSE storage
    /\ creates' = [creates EXCEPT ![c].pc = "bg_wait"]
    /\ UNCHANGED <<deletes, deleted>>

\* the task waits for the project: after an error it marks the project
\* FAILED and ends, otherwise it goes on to store the ready project
TaskWait(c) ==
    /\ creates[c].pc = "bg_wait"
    /\ \E ready \in BOOLEAN, ok \in BOOLEAN :
          IF ready
          THEN /\ creates' = [creates EXCEPT ![c].pc = "bg_save"]
               /\ UNCHANGED storage
          ELSE /\ creates' = [creates EXCEPT ![c].pc = "bg_done"]
               /\ storage' = IF ok
                             THEN UpdateProjectStatus(storage, creates[c].id,
                                                      "FAILED")
                             ELSE storage
    /\ UNCHANGED <<deletes, deleted>>

\* "Update with full details once ready": h.storage.SaveProject
TaskSave(c) ==
    /\ creates[c].pc = "bg_save"
    /\ \E ok \in BOOLEAN :
          /\ storage' = IF ok THEN SaveProject(storage, creates[c].id,
                                               "ACTIVE_HEALTHY")
                        ELSE storage
          /\ creates' = [creates EXCEPT ![c].pc = "bg_done",
                                        ![c].saves = IF ok THEN @ + 1 ELSE @]
    /\ UNCHANGED <<deletes, deleted>>

\* "Get project to get reference": 404 when storage does not return it
DeleteGet(d) ==
    /\ deletes[d].pc = "dp_get"
    /\ \E id \in CreatedIds, dbok \in BOOLEAN :
          deletes' = [deletes EXCEPT ![d] =
                         IF dbok /\ storage[id] # "absent"
                         THEN [@ EXCEPT !.id = id, !.pc = "dp_delete"]
                         ELSE [@ EXCEPT !.id = id, !.code = 404,
                                        !.pc = "dp_done"]]
    /\ UNCHANGED <<storage, creates, deleted>>

\* "Delete from local storage": 500 when the statement fails or finds no row
DeleteLocal(d) ==
    /\ deletes[d].pc = "dp_delete"
    /\ \E dbok \in BOOLEAN :
          LET id == deletes[d].id
          IN  IF dbok /\ storage[id] # "absent"
              THEN /\ storage' = DeleteRow(storage, id)
                   /\ deleted' = deleted \cup {id}
                   /\ deletes' = [deletes EXCEPT ![d].code = 200,
                                                 ![d].pc = "dp_done"]
              ELSE /\ deletes' = [deletes EXCEPT ![d].code = 500,
                                                 ![d].pc = "dp_done"]
                   /\ UNCHANGED <<storage, deleted>>
    /\ UNCHANGED creates

NextProjects ==
    /\ \/ \E c \in 1..MaxCreates :
             CreateCall(c) \/ CreateSave(c) \/ TaskWait(c) \/ TaskSave(c)
       \/ \E d \in 1..MaxDeletes : DeleteGet(d) \/ DeleteLocal(d)
    /\ UNCHANGED <<sql, pc, scan, verdict, migVars, connVars, extractedName,
                   schemaVars, wait>>

SpecProjects == InitProjects /\ [][NextProjects]_vars

\* C28: once DeleteProject has removed a project from storage the project
\* stays absent, whatever the background task of its CreateProject does
\* afterwards.
DeletedProjectStaysAbsent ==
    \A id \in deleted : storage[id] = "absent"

\* the task's failure path, which only updates a status, writes no row for
\* a project that was deleted
FailedTaskStoresNothing ==
    \A c \in 1..MaxCreates :
        (creates[c].id \in deleted /\ creates[c].saves = 0) =>
            storage[creates[c].id] = "absent"

----------------------------------------------------------------------------
(* Client.WaitForProject                                                   *)

\* "checkInterval += 2 * time.Second"
IntervalStep == 2

\* "if checkInterval < 15*time.Second"
IntervalCap == 15

\* the timeout CreateProject passes, "5*time.Minute", in seconds
ProjectTimeout == 300

\* the longest time, in seconds, one GetProject call takes
MaxPollTime == 1

Timeouts == {0, 12, ProjectTimeout}

\* what one poll observes: no project ("error") or the project's status
PollOutcomes ==
    {"error", "COMING_UP", "RESTORING", "ACTIVE_HEALTHY", "INACTIVE",
     "UNKNOWN"}

FailureStatuses == {"INACTIVE", "UNKNOWN"}

\* the interval after a sleep that followed a poll without a verdict
NextIntervalUncapped(interval, observed) ==
    IF observed # "error" THEN interval + IntervalStep ELSE interval

NextInterval(interval, observed) ==
    IF observed # "error" /\ interval < IntervalCap
    THEN interval + IntervalStep
    ELSE interval

InitWait ==
    /\ sql = <<>>
    /\ pc = "waiting"
    /\ scan = ScanInit
    /\ verdict = NoVerdict
    /\ MigIdle
    /\ connStr = "dsn"
    /\ ConnIdle
    /\ extractedName = <<>>
    /\ storage = StoredProjects
    /\ requests = [r \in Reqs |-> NoRequest]
    /\ handles = <<>>
    /\ txs = <<>>
    /\ creates = [c \in 1..MaxCreates |-> NoCreate(c)]
    /\ deletes = [d \in 1..MaxDeletes |-> NoDelete]
    /\ deleted = {}
    /\ \E timeout \in Timeouts : wait = WaitStart(timeout)

\* "for time.Now().Before(deadline)", and the return after the loop
WaitTest ==
    /\ wait.pc = "wf_loop"
    /\ wait' = IF wait.now < wait.deadline
               THEN [wait EXCEPT !.pc = "wf_poll"]
               ELSE [wait EXCEPT !.pc = "wf_done", !.result = "timeout"]

\* c.GetProject and the two tests of the status it returned
WaitPoll ==
    /\ wait.pc = "wf_poll"
    /\ \E observed \in PollOutcomes, took \in 0..MaxPollTime :
          wait' = [wait EXCEPT
                      !.now = @ + took,
                      !.seen = observed,
                      !.pc = IF observed = "ACTIVE_HEALTHY"
                                \/ observed \in FailureStatuses
                             THEN "wf_done" ELSE "wf_sleep",
                      !.result = IF observed = "ACTIVE_HEALTHY" THEN "project"
                                 ELSE IF observed \in FailureStatuses
                                      THEN "failed" ELSE @]

\* time.Sleep(checkInterval), followed by the increase unless the poll
\* ended in "continue"
WaitSleep ==
    /\ wait.pc = "wf_sleep"
    /\ wait' = [wait EXCEPT
                   !.now = @ + wait.checkInterval,
                   !.slept = wait.checkInterval,
                   !.checkInterval = NextInterval(@, wait.seen),
                   !.pc = "wf_loop"]

NextWait ==
    /\ WaitTest \/ WaitPoll \/ WaitSleep
    /\ UNCHANGED <<sql, pc, scan, verdict, migVars, connVars, extractedName,
                   storage, schemaVars, projectVars>>

SpecWait == InitWait /\ [][NextWait]_vars

\* the loop is one goroutine that runs on: each of its steps is taken
SpecWaitLive == SpecWait /\ WF_vars(NextWait)

WaitReturned == wait.pc = "wf_done"

\* what the result says about the polls, and the range of the interval
WaitResultSound ==
    /\ wait.result = "project" => wait.seen = "ACTIVE_HEALTHY"
    /\ wait.seen \in FailureStatuses =>
           WaitReturned /\ wait.result = "failed"
    /\ wait.result = "timeout" =>
           /\ wait.now >= wait.deadline
           /\ wait.seen \notin FailureStatuses \cup {"ACTIVE_HEALTHY"}
    /\ (WaitReturned /\ wait.seen \notin FailureStatuses
                                         \cup {"ACTIVE_HEALTHY"}) =>
           wait.result = "timeout"
    /\ wait.result = "none" <=> ~WaitReturned
    /\ wait.slept = 0 => wait.checkInterval = FirstInterval
    /\ wait.checkInterval <= 15
    /\ wait.slept <= 15

Smaller(a, b) == IF a < b THEN a ELSE b

\* one wait between two polls: as long as the interval in force, which then
\* grows by 2 up to 15 if the poll before it returned a project
WaitBetweenPolls ==
    (wait.pc = "wf_sleep" /\ wait'.pc = "wf_loop") =>
        /\ wait'.slept = wait.checkInterval
        /\ wait'.now = wait.now + wait.checkInterval
        /\ wait'.checkInterval =
               IF wait.seen = "error" THEN wait.checkInterval
               ELSE Smaller(wait.checkInterval + 2, 15)

====
